---- MODULE Spec2Model ----
(***************************************************************************)
(* Quill: the conversation session engine of src/app.rs, driven by the     *)
(* loop of src/main.rs against the backend of src/ollama.rs.               *)
(*                                                                         *)
(* Texts (String) are sequences of bytes.  An ASCII byte is written as the *)
(* one-character string of its character; the two bytes of the character   *)
(* e-acute are written "C3" and "A9".  Option<T> is a sequence of length   *)
(* at most one: None is <<>> and Some(x) is <<x>>.                         *)
(***************************************************************************)
EXTENDS Integers, Sequences, FiniteSets, TLC

\* ------------------------------------------------------------------ bounds
\* number of chat_stream requests (submit + approve) in one behaviour
MaxRequests == 2
\* number of fragments the backend delivers on one stream
MaxChunks == 1
\* number of characters in the input buffer
MaxInput == 1
\* the same two bounds for the specification of the stream assembler
MaxStreamRequests == 1
MaxStreamChunks == 2
\* the bounds for the specification of the tool-call extractor: the pieces
\* of a reply, the requests and the fragments of one stream
MaxPieces == 3
MaxExtractRequests == 2
MaxExtractChunks == 2

\* ------------------------------------------------------ program constants
\* the display history cap of start_message_sending
MaxMessages == 50

None == <<>>
Some(x) == <<x>>

Min(S) == CHOOSE x \in S : \A y \in S : x <= y

\* ------------------------------------------------------------ str helpers
\* char::is_whitespace on the bytes the model uses
IsWhitespace(b) == b \in {" ", "\n", "\t", "\r"}

RECURSIVE trim_start(_)
trim_start(s) ==
  IF Len(s) > 0 /\ IsWhitespace(Head(s)) THEN trim_start(Tail(s)) ELSE s

RECURSIVE trim_end(_)
trim_end(s) ==
  IF Len(s) > 0 /\ IsWhitespace(s[Len(s)])
  THEN trim_end(SubSeq(s, 1, Len(s) - 1)) ELSE s

\* str::trim
trim(s) == trim_end(trim_start(s))

\* UTF-8: the continuation bytes (10xxxxxx) of the model's alphabet
ContinuationBytes == {"A9"}

\* char::encode_utf8 for the characters a key event can carry
encode_utf8(c) == IF c = "e_acute" THEN <<"C3", "A9">> ELSE <<c>>

\* str::is_char_boundary, idx is a zero-based byte offset
is_char_boundary(s, idx) ==
  \/ idx = 0
  \/ idx = Len(s)
  \/ idx < Len(s) /\ s[idx + 1] \notin ContinuationBytes

\* number of bytes of the character that starts at zero-based offset idx
RECURSIVE len_utf8_at(_, _)
len_utf8_at(s, idx) ==
  IF idx + 2 <= Len(s) /\ s[idx + 2] \in ContinuationBytes
  THEN 1 + len_utf8_at(s, idx + 1) ELSE 1

\* String::insert(idx, c); panics unless idx is a char boundary
string_insert(s, idx, c) ==
  IF idx > Len(s) \/ ~is_char_boundary(s, idx)
  THEN [panic |-> TRUE, s |-> s]
  ELSE [panic |-> FALSE,
        s |-> SubSeq(s, 1, idx) \o encode_utf8(c) \o SubSeq(s, idx + 1, Len(s))]

\* String::remove(idx); panics unless a character starts at idx
string_remove(s, idx) ==
  IF idx >= Len(s) \/ ~is_char_boundary(s, idx)
  THEN [panic |-> TRUE, s |-> s]
  ELSE [panic |-> FALSE,
        s |-> SubSeq(s, 1, idx) \o SubSeq(s, idx + len_utf8_at(s, idx) + 1, Len(s))]

\* mutant of lines: the fragment is taken for one line
lines_single(s) == IF Len(s) = 0 THEN <<>> ELSE <<s>>

\* str::lines on a fragment: split at "\n", a final empty line is dropped
lines(s) ==
  LET nl == {i \in 1..Len(s) : s[i] = "\n"}
      \* the position of the k-th "\n"; 0 for k = 0, past the end after the last
      at(k) == IF k = 0 THEN 0
               ELSE IF k > Cardinality(nl) THEN Len(s) + 1
               ELSE CHOOSE i \in nl : Cardinality({j \in nl : j <= i}) = k
      n == Cardinality(nl) + (IF Len(s) > 0 /\ s[Len(s)] # "\n" THEN 1 ELSE 0)
  IN [k \in 1..n |-> SubSeq(s, at(k - 1) + 1, at(k) - 1)]

\* --------------------------------------------------------------- literals
LitToolCall == <<"[", "t", "o", "o", "l", "_", "c", "a", "l", "l", ":">>
LitReadFile == <<"r", "e", "a", "d", "_", "f", "i", "l", "e">>
LitReadDirectory == <<"r", "e", "a", "d", "_", "d", "i", "r", "e", "c", "t", "o", "r", "y">>
LitPath == <<"p", "a", "t", "h">>
Quotes == {"'", "\""}

\* ----------------------------------------------- the tool-call regex
\* \[tool_call:\s*(read_file|read_directory)\((?:path\s*=\s*)?['"](.*?)['"]\)\]
StartsWithAt(s, i, lit) ==
  /\ i >= 1
  /\ i + Len(lit) - 1 <= Len(s)
  /\ SubSeq(s, i, i + Len(lit) - 1) = lit

\* \s* : the first position at or after i that holds no whitespace
RECURSIVE SkipWs(_, _)
SkipWs(s, i) ==
  IF i <= Len(s) /\ IsWhitespace(s[i]) THEN SkipWs(s, i + 1) ELSE i

\* ['"](.*?)['"]\)\] from position q: the positions of a closing quote that
\* ")]" follows, with no "\n" between q and it
Closings(s, q) ==
  {e \in (q + 1)..(Len(s) - 2) :
     /\ s[e] \in Quotes
     /\ s[e + 1] = ")"
     /\ s[e + 2] = "]"
     /\ \A m \in (q + 1)..(e - 1) : s[m] # "\n"}

\* cap2 is the lazily matched text between the quotes
MatchQuoted(s, q, tool) ==
  IF ~(q <= Len(s) /\ s[q] \in Quotes) \/ Closings(s, q) = {} THEN None
  ELSE Some([cap1 |-> tool, cap2 |-> SubSeq(s, q + 1, Min(Closings(s, q)) - 1)])

\* \((?:path\s*=\s*)? from position k, the end of the tool name
MatchArgument(s, k, tool) ==
  IF ~StartsWithAt(s, k, <<"(">>) THEN None
  ELSE IF /\ StartsWithAt(s, k + 1, LitPath)
          /\ StartsWithAt(s, SkipWs(s, k + 1 + Len(LitPath)), <<"=">>)
  THEN MatchQuoted(s, SkipWs(s, SkipWs(s, k + 1 + Len(LitPath)) + 1), tool)
  ELSE MatchQuoted(s, k + 1, tool)

\* mutant of MatchTool: the first letter of the tool name may be a capital
MatchTool_capital(s, j) ==
  IF StartsWithAt(s, j, LitReadFile) \/ StartsWithAt(s, j, <<"R">> \o Tail(LitReadFile))
  THEN MatchArgument(s, j + Len(LitReadFile), LitReadFile)
  ELSE IF \/ StartsWithAt(s, j, LitReadDirectory)
          \/ StartsWithAt(s, j, <<"R">> \o Tail(LitReadDirectory))
  THEN MatchArgument(s, j + Len(LitReadDirectory), LitReadDirectory)
  ELSE None

\* (read_file|read_directory) from position j; cap1 is the tool name
MatchTool(s, j) ==
  IF StartsWithAt(s, j, LitReadFile)
  THEN MatchArgument(s, j + Len(LitReadFile), LitReadFile)
  ELSE IF StartsWithAt(s, j, LitReadDirectory)
  THEN MatchArgument(s, j + Len(LitReadDirectory), LitReadDirectory)
  ELSE None

\* the match of the regex that starts at position i, if there is one
MatchAt(s, i) ==
  IF ~StartsWithAt(s, i, LitToolCall) THEN None
  ELSE MatchTool(s, SkipWs(s, i + Len(LitToolCall)))

\* mutant of captures: the rightmost match
captures_last(s) ==
  LET starts == {i \in 1..Len(s) : MatchAt(s, i) # None}
  IN IF starts = {} THEN None
     ELSE MatchAt(s, CHOOSE i \in starts : \A j \in starts : j <= i)

\* Regex::captures: the leftmost match
captures(s) ==
  LET starts == {i \in 1..Len(s) : MatchAt(s, i) # None}
  IN IF starts = {} THEN None ELSE MatchAt(s, Min(starts))

\* ------------------------------------------------------------- data model
\* enum ToolCall
ReadFile(path) == [variant |-> "ReadFile", path |-> path]
ReadDirectory(path) == [variant |-> "ReadDirectory", path |-> path]

\* enum Message; timestamp is the reading of the clock at creation
User(content, ts) == [type |-> "User", content |-> content, timestamp |-> ts]
Assistant(content, ts) == [type |-> "Assistant", content |-> content, timestamp |-> ts]
PendingToolCall(tc, orig, ts) ==
  [type |-> "PendingToolCall", tool_call |-> tc, original_message |-> orig, timestamp |-> ts]
ToolCallResult(result, ts) == [type |-> "ToolCallResult", result |-> result, timestamp |-> ts]
ToolCallDenied(tc, orig, ts) ==
  [type |-> "ToolCallDenied", tool_call |-> tc, original_message |-> orig, timestamp |-> ts]

\* the arguments of App::new and the directory it captures
SystemPrompt == <<"Q">>
WorkingDirectory == <<"/", "w">>

\* OllamaClient::list_models fails: the fallback list of App::new
FallbackModels == <<"llama2">>
\* the lists a reachable backend returns (any list, the empty one included)
ListedModels == {<<>>, <<"m1", "m2">>}

\* App::new
new(models) ==
  [models |-> models,
   selected_model_index |-> 0,
   input |-> <<>>,
   input_cursor_position |-> 0,
   messages |-> <<>>,
   is_loading |-> FALSE,
   error_message |-> None,
   streaming_message |-> None,
   stream |-> None,
   scroll_offset |-> 0,
   memories |-> <<>>,
   chat_history |-> << <<"system", SystemPrompt>> >>]

\* VecDeque::back
back(q) == IF Len(q) = 0 THEN None ELSE Some(q[Len(q)])
pop_back(q) == IF Len(q) = 0 THEN q ELSE SubSeq(q, 1, Len(q) - 1)
pop_front(q) == IF Len(q) = 0 THEN q ELSE Tail(q)

scroll_to_bottom(self) ==
  [self EXCEPT !.scroll_offset =
     IF Len(self.messages) = 0 THEN 0 ELSE Len(self.messages) - 1]

add_memory(self, user, assistant) ==
  [self EXCEPT !.memories = Append(@, <<user, assistant>>)]

add_user_message(self, content) ==
  [self EXCEPT !.chat_history = Append(@, <<"user", content>>)]

add_assistant_message(self, content) ==
  [self EXCEPT !.chat_history = Append(@, <<"assistant", content>>)]

build_messages(self, user_message) ==
  Append(self.chat_history, <<"user", user_message>>)

\* ------------------------------------------------------------ tool executor
\* PathBuf::push: an absolute path replaces the base
path_push(base, path) ==
  IF Len(path) > 0 /\ Head(path) = "/" THEN path
  ELSE IF Len(base) > 0 /\ base[Len(base)] = "/" THEN base \o path
  ELSE base \o <<"/">> \o path

ResultReadFile == <<"[", "T", "O", "O", "L", " ", "R", "E", "S", "U", "L", "T", ":", " ", "r", "e", "a", "d", "_", "f", "i", "l", "e", "]", "\n", "P", "a", "t", "h", ":", " ">>
ErrorReadFile == <<"[", "T", "O", "O", "L", " ", "E", "R", "R", "O", "R", ":", " ", "r", "e", "a", "d", "_", "f", "i", "l", "e", "]", "\n", "P", "a", "t", "h", ":", " ">>
ResultReadDirectory == <<"[", "T", "O", "O", "L", " ", "R", "E", "S", "U", "L", "T", ":", " ", "r", "e", "a", "d", "_", "d", "i", "r", "e", "c", "t", "o", "r", "y", "]", "\n", "P", "a", "t", "h", ":", " ">>
ErrorReadDirectory == <<"[", "T", "O", "O", "L", " ", "E", "R", "R", "O", "R", ":", " ", "r", "e", "a", "d", "_", "d", "i", "r", "e", "c", "t", "o", "r", "y", "]", "\n", "P", "a", "t", "h", ":", " ">>
LitSeparator == <<"\n", "-", "-", "-", "\n">>
LitError == <<"\n", "E", "r", "r", "o", "r", ":", " ">>

\* what the filesystem answers to one read: fs.ok, and the file's text,
\* the directory's entries (kind, name) or the error's description
FsOutcomes ==
  {[ok |-> TRUE, content |-> <<"x">>,
    entries |-> << <<"[DIR]", <<"d">> >>, <<"[FILE]", <<"f">> >> >>,
    error |-> <<>>],
   [ok |-> FALSE, content |-> <<>>, entries |-> <<>>, error |-> <<"E">>]}

KindText(kind) ==
  IF kind = "[DIR]" THEN <<"[", "D", "I", "R", "]">>
  ELSE IF kind = "[FILE]" THEN <<"[", "F", "I", "L", "E", "]">>
  ELSE <<"[", "?", "]">>

\* list.join("\n") over format!("{} {}", kind, name)
RECURSIVE join_entries(_)
join_entries(entries) ==
  IF Len(entries) = 0 THEN <<>>
  ELSE KindText(Head(entries)[1]) \o <<" ">> \o Head(entries)[2]
       \o (IF Len(entries) > 1 THEN <<"\n">> ELSE <<>>)
       \o join_entries(Tail(entries))

\* App::execute_tool_call: always Ok(text)
execute_tool_call(tool_call, fs) ==
  LET pb == path_push(WorkingDirectory, tool_call.path)
  IN IF tool_call.variant = "ReadFile"
     THEN IF fs.ok THEN ResultReadFile \o pb \o LitSeparator \o fs.content
          ELSE ErrorReadFile \o pb \o LitError \o fs.error
     ELSE IF fs.ok THEN ResultReadDirectory \o pb \o LitSeparator \o join_entries(fs.entries)
          ELSE ErrorReadDirectory \o pb \o LitError \o fs.error

\* ------------------------------------------------------ tool-call extractor
\* format!("{}(\"{}\")", tool, path)
normalized(tool, path) == tool \o <<"(", "\"">> \o path \o <<"\"", ")">>

\* parse_tool_calls, lines 356..366: the captured name and path become a
\* PendingToolCall at the tail
push_pending(self, tool, path, ts) ==
  scroll_to_bottom(
    [self EXCEPT !.messages =
       Append(@, PendingToolCall(IF tool = LitReadFile THEN ReadFile(path)
                                 ELSE ReadDirectory(path),
                                 normalized(tool, path), ts))])

\* App::parse_tool_calls
parse_tool_calls(self, message, ts) ==
  LET cap == captures(message)
  IN IF cap = None THEN self
     ELSE push_pending(self, cap[1].cap1, trim(cap[1].cap2), ts)

\* ----------------------------------------------------------------- backend
\* OllamaClient::chat_stream: the request is refused (send fails or the
\* status is no success) or answered by a stream of fragments
chat_stream(model_name, messages, backend) ==
  [request |-> [model |-> model_name, messages |-> messages,
                 accepted |-> backend = "accept"],
   result |-> IF backend = "accept" THEN Some("stream") ELSE None]

BackendOutcomes == {"accept", "refuse"}

\* the result of an operation on the session: the session after it, whether
\* the operation panicked, the tool calls it executed and the requests it sent
Ret(self) == [self |-> self, panic |-> FALSE, exec |-> <<>>, sent |-> <<>>]
\* a panic unwinds out of run_app and main: the session is gone, and the
\* model keeps the session as it was before the operation
PanicFrom(self) == [self |-> self, panic |-> TRUE, exec |-> <<>>, sent |-> <<>>]

\* mutant of open_stream: a refused request leaves the loading flag and the
\* in-progress buffer as they were set
open_stream_keep_loading(self0, self, backend) ==
  IF self.selected_model_index >= Len(self.models)
  THEN PanicFrom(self0)
  ELSE [Ret([self EXCEPT
               !.is_loading = TRUE,
               !.error_message = IF backend = "accept" THEN None
                                 ELSE Some("Error: request failed"),
               !.streaming_message = Some(<<>>),
               !.stream = IF backend = "accept" THEN Some("stream") ELSE None])
        EXCEPT !.sent = <<chat_stream(self.models[self.selected_model_index + 1],
                                      build_messages(self, <<>>), backend).request>>]

\* App::start_message_sending, lines 229..245: flags, model lookup, request
open_stream(self0, self, backend) ==
  LET s1 == [self EXCEPT !.is_loading = TRUE,
                         !.error_message = None,
                         !.streaming_message = Some(<<>>)]
  IN IF s1.selected_model_index >= Len(s1.models)
     THEN PanicFrom(self0)
     ELSE LET call == chat_stream(s1.models[s1.selected_model_index + 1],
                                  build_messages(s1, <<>>), backend)
              s2 == IF call.result # None
                    THEN [s1 EXCEPT !.stream = call.result]
                    ELSE [s1 EXCEPT !.error_message = Some("Error: request failed"),
                                    !.is_loading = FALSE,
                                    !.streaming_message = None]
          IN [Ret(s2) EXCEPT !.sent = <<call.request>>]

\* App::start_message_sending
start_message_sending(self, env) ==
  LET user_message == self.input
      s1 == add_user_message([self EXCEPT !.input = <<>>,
                                          !.input_cursor_position = 0],
                             user_message)
      s2 == [s1 EXCEPT !.messages = Append(@, User(user_message, env.now))]
      s3 == IF Len(s2.messages) > MaxMessages
            THEN [s2 EXCEPT !.messages = pop_front(@)] ELSE s2
  IN open_stream(self, s3, env.backend)

\* App::start_message_sending_with_content
start_message_sending_with_content(self0, self, content, env) ==
  LET s1 == add_user_message([self EXCEPT !.input = <<>>,
                                          !.input_cursor_position = 0],
                             content)
      s2 == IF Len(s1.messages) > MaxMessages
            THEN [s1 EXCEPT !.messages = pop_front(@)] ELSE s1
      s3 == [s2 EXCEPT !.is_loading = TRUE,
                       !.error_message = None,
                       !.streaming_message = Some(<<>>)]
  IN IF s3.selected_model_index >= Len(s3.models)
     THEN PanicFrom(self0)
     ELSE LET call == chat_stream(s3.models[s3.selected_model_index + 1],
                                  build_messages(s3, <<>>), env.backend)
              s4 == IF call.result # None
                    THEN [s3 EXCEPT !.stream = call.result]
                    ELSE [s3 EXCEPT !.error_message = Some("Error: request failed"),
                                    !.is_loading = FALSE,
                                    !.streaming_message = None]
          IN [Ret(s4) EXCEPT !.sent = <<call.request>>]

\* ------------------------------------------------------------ key handling
\* KeyEvent: code, the character of a Char and the CONTROL modifier
Key(code) == [code |-> code, c |-> "", ctrl |-> FALSE]
Char(c) == [code |-> "Char", c |-> c, ctrl |-> FALSE]
CtrlChar(c) == [code |-> "Char", c |-> c, ctrl |-> TRUE]

Keys ==
  {Key("Up"), Key("Down"), Key("Left"), Key("Right"), Key("Enter"),
   Key("Backspace"), Key("Delete"), Key("Tab"),
   Char("a"), Char(" "), Char("e_acute"), Char("q"),
   CtrlChar("a"), CtrlChar("c")}

\* the keys of the specification of the assembler
StreamKeys ==
  {Key("Left"), Key("Right"), Key("Enter"), Key("Tab"), Char("a"), Char("q")}

\* mutant of accept_tool_call: the result is shown as an ordinary user entry
accept_tool_call_visible(self, tool_call, env) ==
  LET result == execute_tool_call(tool_call, env.fs)
      s1 == [self EXCEPT !.messages = Append(pop_back(@), User(result, env.now))]
      r == start_message_sending_with_content(self, s1, result, env)
  IN [r EXCEPT !.exec = <<tool_call>>]

\* mutant of accept_tool_call: a failed read is a session error, nothing is
\* sent to the backend
accept_tool_call_fs_error(self, tool_call, env) ==
  IF env.fs.ok
  THEN [start_message_sending_with_content(
          self, [self EXCEPT !.messages = pop_back(@)],
          execute_tool_call(tool_call, env.fs), env)
        EXCEPT !.exec = <<tool_call>>]
  ELSE [Ret([self EXCEPT !.messages = pop_back(@),
                         !.error_message = Some("Error: tool failed")])
        EXCEPT !.exec = <<tool_call>>]

\* handle_input, KeyCode::Right on a pending tool call
accept_tool_call(self, tool_call, env) ==
  LET result == execute_tool_call(tool_call, env.fs)
      s1 == [self EXCEPT !.messages = pop_back(@)]
      r == start_message_sending_with_content(self, s1, result, env)
  IN [r EXCEPT !.exec = <<tool_call>>]

\* mutant of deny_pending: the denial is pushed as an assistant entry and
\* the pending entry stays (what the unused App::deny_tool_call does)
deny_pending_as_assistant(self, tool_call, original_message, env) ==
  Ret(scroll_to_bottom(
        [self EXCEPT !.messages =
           Append(@, Assistant(<<"[", "T", "O", "O", "L", " ", "D", "E", "N", "I", "E", "D", "]">>
                               \o original_message, env.now))]))

\* mutant of deny_pending: the denial is also recorded in the transcript
deny_pending_recorded(self, tool_call, original_message, env) ==
  Ret(add_assistant_message(
        [self EXCEPT !.messages =
           Append(pop_back(@), ToolCallDenied(tool_call, original_message, env.now))],
        original_message))

\* handle_input, KeyCode::Left on a pending tool call
deny_pending(self, tool_call, original_message, env) ==
  Ret([self EXCEPT !.messages =
         Append(pop_back(@), ToolCallDenied(tool_call, original_message, env.now))])

\* handle_input, the match on key.code of lines 164..210
handle_key(self, key, env) ==
  LET pos == self.input_cursor_position
  IN CASE key.code = "Up" ->
            Ret(IF self.selected_model_index > 0
                THEN [self EXCEPT !.selected_model_index = @ - 1] ELSE self)
       [] key.code = "Down" ->
            Ret(IF self.selected_model_index + 1 < Len(self.models)
                THEN [self EXCEPT !.selected_model_index = @ + 1] ELSE self)
       [] key.code = "Char" ->
            IF key.ctrl THEN Ret(self)
            ELSE LET ins == string_insert(self.input, pos, key.c)
                 IN IF ins.panic THEN PanicFrom(self)
                    ELSE Ret([self EXCEPT !.input = ins.s,
                                          !.input_cursor_position = pos + 1])
       [] key.code = "Backspace" ->
            IF pos > 0
            THEN LET rem == string_remove(self.input, pos - 1)
                 IN IF rem.panic THEN PanicFrom(self)
                    ELSE Ret([self EXCEPT !.input = rem.s,
                                          !.input_cursor_position = pos - 1])
            ELSE Ret(self)
       [] key.code = "Delete" ->
            IF pos < Len(self.input)
            THEN LET rem == string_remove(self.input, pos)
                 IN IF rem.panic THEN PanicFrom(self)
                    ELSE Ret([self EXCEPT !.input = rem.s])
            ELSE Ret(self)
       [] key.code = "Left" ->
            Ret(IF pos > 0 THEN [self EXCEPT !.input_cursor_position = pos - 1] ELSE self)
       [] key.code = "Right" ->
            Ret(IF pos < Len(self.input)
                THEN [self EXCEPT !.input_cursor_position = pos + 1] ELSE self)
       [] key.code = "Enter" ->
            IF Len(trim(self.input)) > 0
            THEN start_message_sending(self, env) ELSE Ret(self)
       [] OTHER -> Ret(self)

\* mutant of TailIsPending: a ToolCallDenied tail matches as well
TailIsToolCallEntry(self) ==
  /\ Len(self.messages) > 0
  /\ self.messages[Len(self.messages)].type \in {"PendingToolCall", "ToolCallDenied"}

\* is the last entry of the display history a PendingToolCall?
TailIsPending(self) ==
  Len(self.messages) > 0 /\ self.messages[Len(self.messages)].type = "PendingToolCall"

\* mutant of handle_input: the is_loading check is missing
handle_input_while_loading(self, key, env) ==
  LET pending == self.messages[Len(self.messages)]
  IN IF TailIsPending(self) /\ key.code = "Right"
     THEN accept_tool_call(self, pending.tool_call, env)
     ELSE IF TailIsPending(self) /\ key.code = "Left"
     THEN deny_pending(self, pending.tool_call, pending.original_message, env)
     ELSE handle_key(self, key, env)

\* App::handle_input
handle_input(self, key, env) ==
  LET pending == self.messages[Len(self.messages)]
  IN IF TailIsPending(self) /\ key.code = "Right"
     THEN accept_tool_call(self, pending.tool_call, env)
     ELSE IF TailIsPending(self) /\ key.code = "Left"
     THEN deny_pending(self, pending.tool_call, pending.original_message, env)
     ELSE IF self.is_loading THEN Ret(self)
     ELSE handle_key(self, key, env)

\* ------------------------------------------------------- the wire protocol
\* the fields process_streaming reads off one JSON value: message.content,
\* response and done, each absent (None) or present
Json(content, response, done) ==
  [content |-> content, response |-> response, done |-> done]

TxtHi == <<"H", "i">>
TxtSp == <<" ">>
TxtCall == <<"[", "t", "o", "o", "l", "_", "c", "a", "l", "l", ":", " ", "r", "e", "a", "d", "_", "f", "i", "l", "e", "(", "'", "a", "'", ")", "]">>

JHi == Json(Some(TxtHi), None, None)
JSp == Json(Some(TxtSp), None, None)
JCall == Json(Some(TxtCall), None, None)
JEmpty == Json(Some(<<>>), None, None)
JResp == Json(None, Some(TxtHi), None)
JDone == Json(None, None, Some(TRUE))
JNotDone == Json(None, None, Some(FALSE))
JLast == Json(Some(<<>>), None, Some(TRUE))

\* the text of each JSON value, cut in two slices of bytes: a line parses
\* only when it holds both slices of one value, in order
JsonTable ==
  {[value |-> JHi, head |-> "{content:H", tail |-> "i}"],
   [value |-> JSp, head |-> "{content:", tail |-> " }"],
   [value |-> JCall, head |-> "{content:[tool_call", tail |-> ": read_file('a')]}"],
   [value |-> JEmpty, head |-> "{content", tail |-> ":}"],
   [value |-> JResp, head |-> "{response:H", tail |-> "i}"],
   [value |-> JDone, head |-> "{done:", tail |-> "true}"],
   [value |-> JNotDone, head |-> "{done:", tail |-> "false}"],
   [value |-> JLast, head |-> "{content:,", tail |-> "done:true}"]}

JsonText(v) == CHOOSE e \in JsonTable : e.value = v

\* what the backend puts on the wire: whole JSON lines, lines that are no
\* JSON, blank lines, and the two halves of a JSON line cut by a fragment end
WJson(v) == [k |-> "json", v |-> v]
WJunk == [k |-> "junk", v |-> JEmpty]
WBlank == [k |-> "blank", v |-> JEmpty]
WHead(v) == [k |-> "head", v |-> v]
WTail(v) == [k |-> "tail", v |-> v]

\* the bytes of one wire item
WireBytes(w) ==
  CASE w.k = "json" -> <<JsonText(w.v).head, JsonText(w.v).tail, "\n">>
    [] w.k = "junk" -> <<"x", "\n">>
    [] w.k = "blank" -> <<" ", "\n">>
    [] w.k = "head" -> <<JsonText(w.v).head>>
    [] w.k = "tail" -> <<JsonText(w.v).tail, "\n">>

\* the fragment (String) chat_stream yields for a sequence of wire items
RECURSIVE Fragment(_)
Fragment(ws) == IF Len(ws) = 0 THEN <<>> ELSE WireBytes(Head(ws)) \o Fragment(Tail(ws))

\* the fragments the backend delivers in the specification of the session
SessionChunks ==
  {<<WJson(JHi)>>,
   <<WJson(JCall)>>,
   <<WJson(JDone)>>}

\* the fragments the backend delivers in the specification of the assembler
Chunks ==
  {<<WJson(JHi)>>,
   <<WJson(JCall)>>,
   <<WJson(JSp)>>,
   <<WJson(JDone)>>,
   <<WJson(JHi), WJson(JDone)>>,
   <<WJunk, WBlank, WJson(JResp), WJson(JEmpty), WJson(JNotDone)>>,
   <<WJson(JDone), WJson(JHi)>>,
   <<WJson(JLast)>>,
   <<WHead(JHi)>>,
   <<WTail(JHi)>>}

\* what one poll of the stream yields: Ok(Some(Ok(chunk))), Ok(Some(Err)),
\* Ok(None), or the 10 ms timeout
Items(chunks) ==
  {[kind |-> "Chunk", chunk |-> c] : c \in chunks}
  \cup {[kind |-> k, chunk |-> <<>>] : k \in {"Err", "End", "Timeout"}}

\* serde_json::from_str::<Value>
from_str(line) ==
  LET m == {e \in JsonTable : line = <<e.head, e.tail>>}
  IN IF m = {} THEN None ELSE Some((CHOOSE e \in m : TRUE).value)

\* ---------------------------------------------------------- stream assembler
\* finish_streaming, lines 333..342: a non-blank reply goes to the
\* transcript, the display history, the tool-call extractor and the memories
commit_reply(self, content, ts) ==
  add_memory(
    parse_tool_calls(
      scroll_to_bottom(
        [add_assistant_message(self, content) EXCEPT
           !.messages = Append(@, Assistant(content, ts))]),
      content, ts + 1),
    <<"U", "S", "E", "R">>, content)

\* mutant of end_stream: the loading flag stays set
end_stream_loading(self) == [self EXCEPT !.stream = None]

\* finish_streaming, lines 345..346
end_stream(self) == [self EXCEPT !.is_loading = FALSE, !.stream = None]

\* mutant of finish_streaming: a blank reply is committed as well
finish_streaming_untrimmed(self, ts) ==
  LET content == self.streaming_message
  IN IF content # None /\ Len(content[1]) > 0
     THEN end_stream(commit_reply([self EXCEPT !.streaming_message = None],
                                  content[1], ts))
     ELSE end_stream([self EXCEPT !.streaming_message = None])

\* mutant of finish_streaming: the buffer is cloned, not taken
finish_streaming_keep(self, ts) ==
  LET content == self.streaming_message
  IN IF content # None /\ Len(trim(content[1])) > 0
     THEN end_stream(commit_reply(self, content[1], ts))
     ELSE end_stream(self)

\* App::finish_streaming
finish_streaming(self, ts) ==
  LET content == self.streaming_message
  IN IF content # None /\ Len(trim(content[1])) > 0
     THEN end_stream(commit_reply([self EXCEPT !.streaming_message = None],
                                  content[1], ts))
     ELSE end_stream([self EXCEPT !.streaming_message = None])

\* mutant of push_str: the content also goes to the transcript at once
push_str_commit(self, content) ==
  IF self.streaming_message # None
  THEN add_assistant_message([self EXCEPT !.streaming_message = Some(@[1] \o content)],
                             content)
  ELSE self

\* streaming.push_str(content)
push_str(self, content) ==
  IF self.streaming_message # None
  THEN [self EXCEPT !.streaming_message = Some(@[1] \o content)] ELSE self

\* process_streaming, lines 291..308: what one parsed JSON value does; done
\* is TRUE when the step returned out of process_streaming on a done line
process_json(self, json, ts) ==
  IF json.content # None
  THEN [self |-> IF Len(json.content[1]) > 0
                 THEN push_str(self, json.content[1]) ELSE self,
        done |-> FALSE]
  ELSE IF json.response # None
  THEN [self |-> IF Len(json.response[1]) > 0
                 THEN push_str(self, json.response[1]) ELSE self,
        done |-> FALSE]
  ELSE IF json.done # None /\ json.done[1]
  THEN [self |-> finish_streaming(self, ts), done |-> TRUE]
  ELSE [self |-> self, done |-> FALSE]

\* mutant of process_line: a line that does not parse ends the turn
process_line_strict(self, line, ts) ==
  IF Len(trim(line)) = 0 THEN [self |-> self, done |-> FALSE]
  ELSE IF from_str(trim(line)) = None
  THEN [self |-> finish_streaming(self, ts), done |-> TRUE]
  ELSE process_json(self, from_str(trim(line))[1], ts)

\* process_streaming, the body of the loop over chunk.lines(): blank lines
\* and lines that do not parse are skipped
process_line(self, line, ts) ==
  IF Len(trim(line)) = 0 \/ from_str(trim(line)) = None
  THEN [self |-> self, done |-> FALSE]
  ELSE process_json(self, from_str(trim(line))[1], ts)

\* process_streaming, the loop over chunk.lines()
RECURSIVE process_lines(_, _, _)
process_lines(self, ls, ts) ==
  IF Len(ls) = 0 THEN [self |-> self, done |-> FALSE]
  ELSE LET r == process_line(self, Head(ls), ts)
       IN IF r.done THEN r ELSE process_lines(r.self, Tail(ls), ts)

\* mutant of process_streaming: a stream error is handled as the end of the
\* stream
process_streaming_silent(self, item, ts) ==
  IF self.stream = None THEN [self |-> self, outcome |-> "NoStream"]
  ELSE CASE item.kind = "Chunk" ->
              LET r == process_lines(self, lines(Fragment(item.chunk)), ts)
              IN [self |-> r.self,
                  outcome |-> IF r.done THEN "Completed" ELSE "Progressed"]
         [] item.kind = "Err" ->
              [self |-> finish_streaming(self, ts), outcome |-> "StreamError"]
         [] item.kind = "End" ->
              [self |-> finish_streaming(self, ts), outcome |-> "StreamEnded"]
         [] OTHER -> [self |-> self, outcome |-> "Timeout"]

\* App::process_streaming; outcome names what the step was
process_streaming(self, item, ts) ==
  IF self.stream = None THEN [self |-> self, outcome |-> "NoStream"]
  ELSE CASE item.kind = "Chunk" ->
              LET r == process_lines(self, lines(Fragment(item.chunk)), ts)
              IN [self |-> r.self,
                  outcome |-> IF r.done THEN "Completed" ELSE "Progressed"]
         [] item.kind = "Err" ->
              [self |-> finish_streaming(
                          [self EXCEPT !.error_message = Some("Stream error")], ts),
               outcome |-> "StreamError"]
         [] item.kind = "End" ->
              [self |-> finish_streaming(self, ts), outcome |-> "StreamEnded"]
         [] OTHER -> [self |-> self, outcome |-> "Timeout"]

\* -------------------------------------------------------------------- state
VARIABLES
  app,        \* struct App
  now,        \* the clock chrono::Utc::now reads
  halted,     \* "no", or how run_app ended: "quit" or "panic"
  requests,   \* history: the requests chat_stream has sent
  tool_log,   \* history: the calls execute_tool_call has run
  denied,     \* history: the timestamps of the pending calls that were denied
  wire,       \* history: what the current stream has delivered so far
  last        \* history: the operation that led to this state

vars == <<app, now, halted, requests, tool_log, denied, wire, last>>

NoWire ==
  [chunks |-> 0, shape |-> "plain", text |-> <<>>, finals |-> 0, commits |-> 0,
   term |-> FALSE]

\* the lines a stream has delivered are "plain" while each is a whole JSON
\* line with only a content or only a response field, "done" when such lines
\* were followed by one line with only done = true, else "other"
IsContentOnly(w) ==
  /\ w.k = "json"
  /\ w.v.done = None
  /\ (w.v.content = None) # (w.v.response = None)
IsDoneOnly(w) ==
  w.k = "json" /\ w.v.content = None /\ w.v.response = None /\ w.v.done = Some(TRUE)
FieldText(w) == IF w.v.content # None THEN w.v.content[1] ELSE w.v.response[1]
\* a whole JSON line whose done field is true: once a stream has delivered
\* one, wire.term is TRUE
CarriesDone(w) == w.k = "json" /\ w.v.done = Some(TRUE)

RECURSIVE Deliver(_, _)
Deliver(wr, ws) ==
  IF Len(ws) = 0 THEN wr
  ELSE LET w == Head(ws)
       IN Deliver(
            IF wr.shape = "plain" /\ IsContentOnly(w)
            THEN [wr EXCEPT !.text = @ \o FieldText(w), !.term = @ \/ CarriesDone(w)]
            ELSE IF wr.shape = "plain" /\ IsDoneOnly(w)
            THEN [wr EXCEPT !.shape = "done", !.term = TRUE]
            ELSE [wr EXCEPT !.shape = "other", !.term = @ \/ CarriesDone(w)],
            Tail(ws))

\* the number of assistant entries of a transcript
RECURSIVE CountAssistant(_)
CountAssistant(h) ==
  IF Len(h) = 0 THEN 0
  ELSE (IF Head(h)[1] = "assistant" THEN 1 ELSE 0) + CountAssistant(Tail(h))

\* the number of characters of a text
RECURSIVE CountChars(_)
CountChars(s) ==
  IF Len(s) = 0 THEN 0
  ELSE (IF Head(s) \in ContinuationBytes THEN 0 ELSE 1) + CountChars(Tail(s))

\* the last entry of the display history
Back(self) == self.messages[Len(self.messages)]

\* the session states of the specification
AwaitingApproval ==
  Len(app.messages) > 0 /\ app.messages[Len(app.messages)].type = "PendingToolCall"
Streaming == app.is_loading
Idle == ~Streaming /\ ~AwaitingApproval

\* the clock after an operation: past the newest entry it stamped
Clock(self) ==
  IF Len(self.messages) > 0 /\ self.messages[Len(self.messages)].timestamp >= now
  THEN self.messages[Len(self.messages)].timestamp + 1 ELSE now

\* the operation that led to a state: "key" with the key's code (the codes
\* that neither approve, deny nor submit are recorded as "Other") and, when
\* the key ran a tool call, what the filesystem answered; "tick" with what
\* the poll yielded and what the step was; "quit" or "init"
Last(op, code, outcome) == [op |-> op, code |-> code, outcome |-> outcome]
CodeOf(key) == IF key.code \in {"Left", "Right", "Enter"} THEN key.code ELSE "Other"

\* what the world answers during one key event: the filesystem's answer to
\* the read of execute_tool_call and the backend's answer to chat_stream;
\* only Right and Enter reach either call
Envs(key) ==
  {[now |-> now, fs |-> fs, backend |-> backend] :
     fs \in IF key.code = "Right" THEN FsOutcomes ELSE {CHOOSE f \in FsOutcomes : f.ok},
     backend \in IF key.code \in {"Right", "Enter"} THEN BackendOutcomes ELSE {"accept"}}

Init ==
  /\ app \in {new(m) : m \in {FallbackModels} \cup ListedModels}
  /\ now = 1
  /\ halted = "no"
  /\ requests = <<>>
  /\ tool_log = <<>>
  /\ denied = {}
  /\ wire = NoWire
  /\ last = Last("init", "", "")

\* run_app: Char('q'), and Char('c') with CONTROL, end the loop
IsQuitKey(key) ==
  key.code = "Char" /\ (key.c = "q" \/ (key.c = "c" /\ key.ctrl))

QuitOn(keys) ==
  /\ halted = "no"
  /\ \E key \in keys : IsQuitKey(key)
  /\ halted' = "quit"
  /\ last' = Last("quit", "", "")
  /\ UNCHANGED <<app, now, requests, tool_log, denied, wire>>

\* the step of a key event whose handling gave r under the answers env of
\* the world; id is the timestamp of the pending entry the key met, or 0
KeyStep(key, env, r, id, maxRequests) ==
  /\ ~IsQuitKey(key)
  /\ Len(requests) + Len(r.sent) <= maxRequests
  /\ CountChars(r.self.input) <= MaxInput
  /\ app' = r.self
  /\ halted' = IF r.panic THEN "panic" ELSE "no"
  /\ now' = Clock(r.self)
  /\ requests' = requests \o r.sent
  /\ tool_log' = tool_log \o [i \in 1..Len(r.exec) |->
                                [call |-> r.exec[i], id |-> id, code |-> key.code]]
  /\ denied' = IF /\ Len(r.self.messages) > 0
                  /\ Back(r.self).type = "ToolCallDenied"
                  /\ Back(r.self).timestamp >= now
               THEN denied \cup {id} ELSE denied
  /\ wire' = IF Len(r.sent) > 0 THEN NoWire ELSE wire
  /\ last' = Last("key", CodeOf(key),
                  IF Len(r.exec) = 0 THEN ""
                  ELSE IF env.fs.ok THEN "FsOk" ELSE "FsError")

\* run_app: any other key press goes to App::handle_input
HandleInputOn(keys, maxRequests) ==
  /\ halted = "no"
  /\ \E key \in keys : \E env \in Envs(key) :
       KeyStep(key, env, handle_input(app, key, env),
               IF AwaitingApproval THEN Back(app).timestamp ELSE 0, maxRequests)

\* the step of a poll that yielded item and whose handling gave r; w1 is
\* what the stream has delivered with it
PollStep(item, r, w1) ==
  /\ app' = r.self
  /\ now' = Clock(r.self)
  /\ wire' = [w1 EXCEPT
                !.finals = @ + (IF r.outcome \in {"Completed", "StreamEnded", "StreamError"}
                                THEN 1 ELSE 0),
                !.commits = @ + CountAssistant(r.self.chat_history)
                              - CountAssistant(app.chat_history)]
  /\ last' = Last("tick", item.kind, r.outcome)

\* run_app: while is_loading, each turn of the loop polls the stream once
PollOn(items, maxChunks) ==
  /\ halted = "no"
  /\ app.is_loading
  /\ \E item \in items :
       /\ item.kind = "Chunk" => wire.chunks < maxChunks
       /\ \E r \in {process_streaming(app, item, now)} :
            PollStep(item, r,
                     IF item.kind = "Chunk"
                     THEN Deliver([wire EXCEPT !.chunks = @ + 1], item.chunk)
                     ELSE IF item.kind \in {"End", "Err"}
                     THEN [wire EXCEPT !.term = TRUE] ELSE wire)
  /\ UNCHANGED <<halted, requests, tool_log, denied>>

ProcessStreamingOn(chunks, maxChunks) == PollOn(Items(chunks), maxChunks)

\* the session under every key, with the short fragments
Quit == QuitOn(Keys)
HandleInput == HandleInputOn(Keys, MaxRequests)
ProcessStreaming == ProcessStreamingOn(SessionChunks, MaxChunks)
Next == Quit \/ HandleInput \/ ProcessStreaming
Spec == Init /\ [][Next]_vars

\* the stream assembler under every fragment, with the keys that submit,
\* approve and deny
StreamQuit == QuitOn(StreamKeys)
StreamHandleInput == HandleInputOn(StreamKeys, MaxStreamRequests)
StreamProcessStreaming == ProcessStreamingOn(Chunks, MaxStreamChunks)
StreamNext == StreamQuit \/ StreamHandleInput \/ StreamProcessStreaming
SpecStream == Init /\ [][StreamNext]_vars

\* the backend's promise for a stream: it ends, errs or delivers a line
\* whose done field is true.  The poll of run_app that meets the end or the
\* error of a stream that has not delivered such a line
StreamTerminates ==
  /\ ~wire.term
  /\ PollOn({[kind |-> k, chunk |-> <<>>] : k \in {"End", "Err"}}, MaxStreamChunks)

\* the assembler under a loop that keeps polling (main.rs:106..108 runs
\* process_streaming in every turn while is_loading) and a backend that
\* keeps its promise once for every stream
SpecLive == Init /\ [][StreamNext]_vars /\ WF_vars(StreamTerminates)

\* the session after n plain exchanges from App::new: each exchange types
\* "a", presses Enter, receives the fragment with "Hi" and the stream's end
Exchanged(n) ==
  [new(FallbackModels) EXCEPT
     !.messages = [i \in 1..(2 * n) |->
                     IF i % 2 = 1 THEN User(<<"a">>, i) ELSE Assistant(TxtHi, i)],
     !.chat_history = << <<"system", SystemPrompt>> >> \o
                      [i \in 1..(2 * n) |->
                         IF i % 2 = 1 THEN <<"user", <<"a">> >> ELSE <<"assistant", TxtHi>>],
     !.memories = [i \in 1..n |-> << <<"U", "S", "E", "R">>, TxtHi>>],
     !.scroll_offset = IF n = 0 THEN 0 ELSE 2 * n - 1]

\* a session whose display history is full: MaxMessages \div 2 exchanges
\* after App::new; the history variables start here
CapInit ==
  /\ app = Exchanged(MaxMessages \div 2)
  /\ now = MaxMessages + 1
  /\ halted = "no"
  /\ requests = <<>>
  /\ tool_log = <<>>
  /\ denied = {}
  /\ wire = NoWire
  /\ last = Last("init", "", "")

SpecCap == CapInit /\ [][Next]_vars

\* the pieces the backend's replies are made of in the specification of the
\* extractor: prose, blanks, invocations of both tools with either quote,
\* with path= and blanks, and directives the grammar does not accept
PcProse == <<"x">>
PcBlank == <<" ">>
PcNewline == <<"\n">>
PcDirectory == <<"[", "t", "o", "o", "l", "_", "c", "a", "l", "l", ":", " ", "r", "e", "a", "d", "_", "d", "i", "r", "e", "c", "t", "o", "r", "y", "(", "\"", "b", "\"", ")", "]">>
PcPath == <<"[", "t", "o", "o", "l", "_", "c", "a", "l", "l", ":", " ", " ", "r", "e", "a", "d", "_", "f", "i", "l", "e", "(", "p", "a", "t", "h", " ", "=", " ", "'", " ", "c", " ", "'", ")", "]">>
PcUpper == <<"[", "t", "o", "o", "l", "_", "c", "a", "l", "l", ":", " ", "R", "e", "a", "d", "_", "f", "i", "l", "e", "(", "'", "a", "'", ")", "]">>
PcOpen == <<"[", "t", "o", "o", "l", "_", "c", "a", "l", "l", ":", " ", "r", "e", "a", "d", "_", "f", "i", "l", "e", "(", "'", "d", "'", ")">>
PcEdit == <<"[", "t", "o", "o", "l", "_", "c", "a", "l", "l", ":", " ", "e", "d", "i", "t", "_", "f", "i", "l", "e", "(", "'", "a", "'", ")", "]">>
Pieces == {PcProse, PcBlank, PcNewline, TxtCall, PcDirectory, PcPath, PcUpper, PcOpen, PcEdit}

RECURSIVE Concat(_)
Concat(ps) == IF Len(ps) = 0 THEN <<>> ELSE Head(ps) \o Concat(Tail(ps))

\* the replies: up to MaxPieces pieces in any order
Replies == {Concat(ps) : ps \in UNION {[1..k -> Pieces] : k \in 1..MaxPieces}}

\* the world of the first submit: the backend accepts
FirstEnv == [now |-> 1, fs |-> CHOOSE f \in FsOutcomes : f.ok, backend |-> "accept"]

\* the session after "a" was typed and submitted from App::new
Submitted ==
  start_message_sending([new(FallbackModels) EXCEPT !.input = <<"a">>,
                                                    !.input_cursor_position = 1],
                        FirstEnv)

\* a session that has received text as the content of one line of its first
\* stream; the history variables start here
ExtractInit ==
  /\ \E text \in Replies :
       /\ app = push_str(Submitted.self, text)
       /\ wire = [NoWire EXCEPT !.chunks = 1, !.text = text]
  /\ now = 2
  /\ halted = "no"
  /\ requests = Submitted.sent
  /\ tool_log = <<>>
  /\ denied = {}
  /\ last = Last("tick", "Chunk", "Progressed")

\* the keys and fragments of the specification of the extractor
ExtractKeys == {Key("Left"), Key("Right")}
ExtractChunks == {<<WJson(JDone)>>}

\* the tool-call extractor under every reply: the stream is finalized by a
\* done line, its end or an error, and the pending call approved or denied
ExtractHandleInput == HandleInputOn(ExtractKeys, MaxExtractRequests)
ExtractProcessStreaming == ProcessStreamingOn(ExtractChunks, MaxExtractChunks)
ExtractNext == ExtractHandleInput \/ ExtractProcessStreaming
SpecExtract == ExtractInit /\ [][ExtractNext]_vars

\* ------------------------------------------------------------------ claims

C2_HistoryCap == Len(app.messages) <= MaxMessages

\* C3: the display history holds at most one PendingToolCall, and a
\* PendingToolCall it holds is its last entry.
C3_OnePendingAtTail ==
  LET idx == {i \in 1..Len(app.messages) : app.messages[i].type = "PendingToolCall"}
  IN Cardinality(idx) <= 1 /\ (idx # {} => idx = {Len(app.messages)})

\* C4: while the tail is a PendingToolCall, a key event other than Right
\* and Left changes nothing of the session and sends no request.
C4_OtherKeysIgnoredWhilePending ==
  [][(last'.op = "key" /\ last'.code \notin {"Left", "Right"} /\ AwaitingApproval) =>
       (app' = app /\ requests' = requests /\ tool_log' = tool_log)]_vars

\* C5: while is_loading, a key event delivered to handle_input changes
\* nothing of the session, sends no request and executes no tool.
C5_KeysIgnoredWhileLoading ==
  [][(last'.op = "key" /\ app.is_loading) =>
       (app' = app /\ requests' = requests /\ tool_log' = tool_log /\ denied' = denied
        /\ halted' = halted)]_vars

\* a key that never opens a stream was delivered to a loading session
C5_Witness == last.op = "key" /\ last.code = "Other" /\ app.is_loading

\* C6: an advance step that does not finalize (content appended, bad line,
\* poll timeout) changes nothing but the in-progress buffer.
C6_NonFinalStepsOnlyBuffer ==
  [][(last'.op = "tick" /\ last'.outcome \in {"Progressed", "Timeout"}) =>
       app' = [app EXCEPT !.streaming_message = app'.streaming_message]]_vars

\* a fragment was consumed, text is buffered and the stream is still open
C6_Witness ==
  /\ last.op = "tick"
  /\ last.outcome = "Progressed"
  /\ app.is_loading
  /\ app.streaming_message = Some(TxtHi)

\* C7: a stream commits at most one assistant entry, and once it is
\* finalized, finalizing again or advancing again changes neither the
\* display history, the transcript nor the memory log.
C7_FinalizeOnce ==
  /\ wire.commits <= 1
  /\ wire.finals <= 1
  /\ wire.finals > 0 =>
       /\ LET again == finish_streaming(app, now)
          IN /\ again.messages = app.messages
             /\ again.chat_history = app.chat_history
             /\ again.memories = app.memories
       /\ \A item \in Items(Chunks) :
            LET adv == process_streaming(app, item, now).self
            IN /\ adv.messages = app.messages
               /\ adv.chat_history = app.chat_history
               /\ adv.memories = app.memories

\* a stream was finalized and committed its assistant entry
C7_Witness == wire.finals = 1 /\ wire.commits = 1 /\ ~app.is_loading

\* the entries of the display history that follow the last Assistant entry
\* are the tool-call entry detected in it, if any
CommittedInHistory(text) ==
  \E i \in 1..Len(app.messages) :
    /\ i >= Len(app.messages) - 1
    /\ app.messages[i].type = "Assistant"
    /\ app.messages[i].content = text

\* C8 as stated: after content-only lines and one done-only line the stream
\* is finalized once and the committed text is the concatenation of the
\* non-empty content fields (whenever there is any such field).
C8_CommitsConcatenation ==
  wire.shape = "done" =>
    /\ wire.finals = 1
    /\ Len(wire.text) > 0 =>
         /\ wire.commits = 1
         /\ app.chat_history[Len(app.chat_history)] = <<"assistant", wire.text>>
         /\ CommittedInHistory(wire.text)

\* C8 amended: ... the committed text is that concatenation when it is not
\* blank after trimming; when it is blank nothing is committed.
C8_CommitsNonBlankConcatenation ==
  wire.shape = "done" =>
    /\ wire.finals = 1
    /\ ~app.is_loading
    /\ IF Len(trim(wire.text)) > 0
       THEN /\ wire.commits = 1
            /\ app.chat_history[Len(app.chat_history)] = <<"assistant", wire.text>>
            /\ CommittedInHistory(wire.text)
       ELSE wire.commits = 0

\* two content lines in two fragments, then the done line
C8_Witness ==
  wire.shape = "done" /\ wire.chunks = 2 /\ wire.text = TxtHi \o TxtHi /\ wire.commits = 1

\* C9: deny replaces the pending tail by one ToolCallDenied entry with the
\* same call and text, leaves transcript, memory log, loading flag and
\* stream handle alone, sends no request and leaves the session Idle.
C9_Deny ==
  [][(last'.op = "key" /\ last'.code = "Left" /\ AwaitingApproval) =>
       /\ Len(app'.messages) = Len(app.messages)
       /\ pop_back(app'.messages) = pop_back(app.messages)
       /\ Back(app').type = "ToolCallDenied"
       /\ Back(app').tool_call = Back(app).tool_call
       /\ Back(app').original_message = Back(app).original_message
       /\ app'.chat_history = app.chat_history
       /\ app'.memories = app.memories
       /\ app'.is_loading = app.is_loading
       /\ app'.stream = app.stream
       /\ requests' = requests
       /\ tool_log' = tool_log
       /\ Idle']_vars

\* a pending call was denied in the last step
C9_Witness ==
  /\ last.op = "key"
  /\ last.code = "Left"
  /\ denied # {}
  /\ Len(app.messages) > 0
  /\ Back(app).type = "ToolCallDenied"
  /\ Back(app).timestamp = now - 1

\* C10: approve removes the pending tail, appends the tool's result as one
\* user entry at the end of the transcript, adds no entry to the display
\* history and, when the backend accepts, leaves the session Streaming with
\* an empty in-progress buffer.
C10_Approve ==
  [][(last'.op = "key" /\ last'.code = "Right" /\ AwaitingApproval) =>
       LET popped == pop_back(app.messages)
       IN /\ app'.messages = IF Len(popped) > MaxMessages THEN pop_front(popped) ELSE popped
          /\ \E fs \in FsOutcomes :
               app'.chat_history =
                 Append(app.chat_history, <<"user", execute_tool_call(Back(app).tool_call, fs)>>)
          /\ Len(requests') = Len(requests) + 1
          /\ requests'[Len(requests')].accepted =>
               /\ app'.is_loading
               /\ app'.stream # None
               /\ app'.streaming_message = Some(<<>>)
               /\ ~AwaitingApproval']_vars

\* a pending call was approved, the backend accepted, the session streams
C10_Witness ==
  /\ last.op = "key"
  /\ last.code = "Right"
  /\ Len(tool_log) > 0
  /\ app.is_loading
  /\ app.streaming_message = Some(<<>>)

\* C11: when the filesystem read of an approved tool call fails, the
\* executor's text (an error block that names the tool and the resolved
\* path) is appended to the transcript as a user entry, run_app goes on, the
\* error flag is set only when the backend refuses the request, and the
\* session is left exactly as after a successful read but for that text.
C11_FsFailureIsContent ==
  [][(last'.op = "key" /\ last'.code = "Right" /\ last'.outcome = "FsError") =>
       LET call == Back(app).tool_call
           sent == app'.chat_history[Len(app'.chat_history)]
           block == (IF call.variant = "ReadFile" THEN ErrorReadFile
                     ELSE ErrorReadDirectory)
                    \o path_push(WorkingDirectory, call.path)
       IN /\ AwaitingApproval
          /\ halted' = "no"
          /\ app'.chat_history = Append(app.chat_history, sent)
          /\ sent[1] = "user"
          /\ StartsWithAt(sent[2], 1, block)
          /\ Len(requests') = Len(requests) + 1
          /\ (app'.error_message # None) <=> ~requests'[Len(requests')].accepted
          /\ requests'[Len(requests')].accepted =>
               /\ app'.is_loading
               /\ app'.stream # None
               /\ app'.streaming_message = Some(<<>>)
          /\ \E fs \in FsOutcomes : \E backend \in BackendOutcomes :
               /\ fs.ok
               /\ app' = [handle_input(app, Key("Right"),
                                       [now |-> now, fs |-> fs, backend |-> backend]).self
                          EXCEPT !.chat_history = app'.chat_history]]_vars

\* the read of an approved call failed and the session streams the reply to
\* the error block
C11_Witness ==
  /\ last.op = "key"
  /\ last.code = "Right"
  /\ last.outcome = "FsError"
  /\ app.is_loading
  /\ app.error_message = None
  /\ StartsWithAt(app.chat_history[Len(app.chat_history)][2], 1, ErrorReadFile)

\* the grammar of an invocation, [tool_call: NAME(ARG)]: the directive
\* starts at v.start, NAME is v.name, ARG is the text between the quotes at
\* v.open and v.close, an optional path= stands before the opening quote,
\* blanks may follow the colon and surround the equals sign, and ARG holds
\* no line break
AllBlank(s, a, b) == \A m \in a..b : IsWhitespace(s[m])
IsInvocation(s, v) ==
  /\ StartsWithAt(s, v.start, LitToolCall)
  /\ \E j \in (v.start + Len(LitToolCall))..v.open :
       /\ AllBlank(s, v.start + Len(LitToolCall), j - 1)
       /\ StartsWithAt(s, j, v.name \o <<"(">>)
       /\ \/ v.open = j + Len(v.name) + 1
          \/ /\ StartsWithAt(s, j + Len(v.name) + 1, LitPath)
             /\ \E m \in (j + Len(v.name) + 1 + Len(LitPath))..(v.open - 1) :
                  /\ AllBlank(s, j + Len(v.name) + 1 + Len(LitPath), m - 1)
                  /\ s[m] = "="
                  /\ AllBlank(s, m + 1, v.open - 1)
  /\ s[v.open] \in Quotes
  /\ v.close > v.open
  /\ s[v.close] \in Quotes
  /\ StartsWithAt(s, v.close + 1, <<")", "]">>)
  /\ \A m \in (v.open + 1)..(v.close - 1) : s[m] # "\n"

Invocations(s) ==
  {v \in [start : {i \in 1..Len(s) : StartsWithAt(s, i, LitToolCall)},
          name : {LitReadFile, LitReadDirectory},
          open : {i \in 1..Len(s) : s[i] \in Quotes},
          close : {i \in 1..Len(s) : StartsWithAt(s, i + 1, <<")", "]">>)}] :
     IsInvocation(s, v)}

\* the first invocation of a text: the leftmost start, closed by the nearest
\* quote that ")]" follows
FirstOf(inv) ==
  CHOOSE v \in inv :
    \A w \in inv : v.start < w.start \/ (v.start = w.start /\ v.close <= w.close)

FinalOutcomes == {"Completed", "StreamEnded", "StreamError"}

\* the step finalized a stream and committed a text
Commits ==
  /\ last'.op = "tick"
  /\ last'.outcome \in FinalOutcomes
  /\ Len(app'.chat_history) = Len(app.chat_history) + 1

\* the step appended the committed text and one PendingToolCall for the
\* call name(path) to the display history
AppendsPending(text, name, path) ==
  /\ Len(app'.messages) = Len(app.messages) + 2
  /\ SubSeq(app'.messages, 1, Len(app.messages)) = app.messages
  /\ app'.messages[Len(app.messages) + 1].type = "Assistant"
  /\ app'.messages[Len(app.messages) + 1].content = text
  /\ Back(app').type = "PendingToolCall"
  /\ Back(app').tool_call =
       [variant |-> IF name = LitReadFile THEN "ReadFile" ELSE "ReadDirectory",
        path |-> path]
  /\ Back(app').original_message = name \o <<"(", "\"">> \o path \o <<"\"", ")">>

ArgOf(s, v) == SubSeq(s, v.open + 1, v.close - 1)

\* the committed text of a step that commits one
Committed == app'.chat_history[Len(app'.chat_history)][2]

\* the step appended the text and the pending call of its invocation v, the
\* path being ARG as it stands
AppendsVerbatim(text, v) == AppendsPending(text, v.name, ArgOf(text, v))

\* ... the path being ARG without its leading and trailing blanks
AppendsTrimmed(text, v) == AppendsPending(text, v.name, trim(ArgOf(text, v)))

\* C12 as stated: a finalization that commits a text with invocations
\* appends exactly one PendingToolCall, for the first invocation, whose path
\* is ARG and whose text is NAME("ARG").
C12_FirstInvocationVerbatim ==
  [][Commits =>
       \A text \in {Committed} : \A inv \in {Invocations(text)} :
         inv # {} => AppendsVerbatim(text, FirstOf(inv))]_vars

\* C12 amended: ... whose path is ARG without its leading and trailing
\* blanks, and whose text is NAME("that path").
C12_FirstInvocationTrimmed ==
  [][Commits =>
       \A text \in {Committed} : \A inv \in {Invocations(text)} :
         inv # {} => AppendsTrimmed(text, FirstOf(inv))]_vars

\* a text with two invocations of different tools was committed and the
\* pending call is the one of the first
C12_Witness ==
  /\ last.op = "tick"
  /\ last.outcome \in FinalOutcomes
  /\ AwaitingApproval
  /\ app.messages[Len(app.messages) - 1].type = "Assistant"
  /\ app.messages[Len(app.messages) - 1].content = PcDirectory \o PcProse \o TxtCall
  /\ Back(app).tool_call = ReadDirectory(<<"b">>)

\* C13: in the Idle state, Enter on an input that is blank after trimming
\* changes nothing; Enter on any other input appends the input as a user
\* entry to the transcript and the display history, empties the input,
\* resets the cursor, sends one request and, when the backend accepts it,
\* leaves the session Streaming.
C13_Submit ==
  [][(last'.op = "key" /\ last'.code = "Enter" /\ Idle) =>
       IF Len(trim(app.input)) = 0
       THEN app' = app /\ requests' = requests /\ halted' = halted
       ELSE /\ app'.chat_history = Append(app.chat_history, <<"user", app.input>>)
            /\ Len(app'.messages) > 0
            /\ Back(app').type = "User"
            /\ Back(app').content = app.input
            /\ pop_back(app'.messages) =
                 IF Len(app.messages) + 1 > MaxMessages
                 THEN pop_front(app.messages) ELSE app.messages
            /\ app'.input = <<>>
            /\ app'.input_cursor_position = 0
            /\ Len(requests') = Len(requests) + 1
            /\ requests'[Len(requests')].accepted =>
                 /\ app'.is_loading
                 /\ app'.stream # None
                 /\ app'.streaming_message = Some(<<>>)]_vars

\* C14: when chat_stream refuses the request of a submit or an approve, the
\* operation ends with the error flag set, the loading flag false, no
\* in-progress buffer and no stream handle; the session is Idle, a later
\* advance changes nothing, and run_app goes on.
C14_OpenFails ==
  [][(Len(requests') = Len(requests) + 1 /\ ~requests'[Len(requests')].accepted) =>
       /\ last'.op = "key"
       /\ last'.code \in {"Enter", "Right"}
       /\ app'.error_message # None
       /\ ~app'.is_loading
       /\ app'.streaming_message = None
       /\ app'.stream = None
       /\ Idle'
       /\ halted' = "no"
       /\ \A item \in Items(Chunks) : process_streaming(app', item, now').self = app']_vars

\* a submit was refused by the backend
C14_Witness ==
  /\ last.op = "key"
  /\ last.code = "Enter"
  /\ Len(requests) = 1
  /\ ~requests[1].accepted
  /\ app.error_message # None
  /\ Idle

\* a whole JSON line whose done field is true
IsDoneLine(w) == w.k = "json" /\ w.v.done = Some(TRUE)

\* the content of the whole JSON lines of a fragment that precede its first
\* done line
RECURSIVE TextBeforeDone(_)
TextBeforeDone(ws) ==
  IF Len(ws) = 0 \/ IsDoneLine(Head(ws)) THEN <<>>
  ELSE (IF Head(ws).k = "json" /\ (Head(ws).v.content # None \/ Head(ws).v.response # None)
        THEN FieldText(Head(ws)) ELSE <<>>)
       \o TextBeforeDone(Tail(ws))

\* the advance that consumes chunk finalizes the turn with the text of the
\* lines before the first done line
FinalizesOnDone(chunk) ==
  LET r == process_streaming(app, [kind |-> "Chunk", chunk |-> chunk], now)
      text == app.streaming_message[1] \o TextBeforeDone(chunk)
  IN /\ r.outcome = "Completed"
     /\ ~r.self.is_loading
     /\ r.self.stream = None
     /\ r.self.streaming_message = None
     /\ r.self.chat_history =
          IF Len(trim(text)) > 0
          THEN Append(app.chat_history, <<"assistant", text>>) ELSE app.chat_history

\* C15: while a stream is open, a fragment with a line whose done field is
\* true finalizes the turn in the advance that consumes it, whatever other
\* fields that line carries, and appends nothing of the lines after it.
C15_DoneLineFinalizes ==
  (app.is_loading /\ app.stream # None /\ app.streaming_message # None) =>
    \A chunk \in Chunks :
      (\E i \in 1..Len(chunk) : IsDoneLine(chunk[i])) => FinalizesOnDone(chunk)

\* the number of Assistant entries of a display history
RECURSIVE CountAssistantEntries(_)
CountAssistantEntries(q) ==
  IF Len(q) = 0 THEN 0
  ELSE (IF Head(q).type = "Assistant" THEN 1 ELSE 0) + CountAssistantEntries(Tail(q))

\* the step appended text as one Assistant entry to the display history and
\* the transcript, and one entry to the memory log
CommitsOnce(text) ==
  /\ app'.chat_history = Append(app.chat_history, <<"assistant", text>>)
  /\ app'.memories = Append(app.memories, << <<"U", "S", "E", "R">>, text>>)
  /\ Len(app'.messages) > Len(app.messages)
  /\ SubSeq(app'.messages, 1, Len(app.messages)) = app.messages
  /\ app'.messages[Len(app.messages) + 1].type = "Assistant"
  /\ app'.messages[Len(app.messages) + 1].content = text
  /\ CountAssistantEntries(app'.messages) = CountAssistantEntries(app.messages) + 1

\* C16: every finalization (done line, end of stream, stream error) commits
\* the accumulated text as one Assistant entry of the display history and
\* the transcript and one entry of the memory log exactly when the text is
\* not blank after trimming, and always clears the in-progress buffer, the
\* loading flag and the stream handle.  (The fragments of SpecExtract carry
\* the done line alone: the accumulated text is the buffer before the step.)
C16_FinalizeCommits ==
  [][(last'.op = "tick" /\ last'.outcome \in FinalOutcomes) =>
       /\ app.streaming_message # None
       /\ IF Len(trim(app.streaming_message[1])) > 0
          THEN CommitsOnce(app.streaming_message[1])
          ELSE /\ app'.chat_history = app.chat_history
               /\ app'.memories = app.memories
               /\ app'.messages = app.messages
       /\ app'.streaming_message = None
       /\ ~app'.is_loading
       /\ app'.stream = None]_vars

\* a stream error finalized a blank reply: nothing was committed
C16_Witness ==
  /\ last.op = "tick"
  /\ last.outcome = "StreamError"
  /\ wire.text = PcBlank \o PcNewline
  /\ wire.commits = 0
  /\ app.memories = <<>>
  /\ ~app.is_loading

\* C17: an error of the stream and the end of the stream without a done
\* line both finalize the turn with the text accumulated so far, committed
\* when it is not blank, and leave Streaming; the error flag is set by the
\* error and not by the end; run_app goes on.
C17_StreamErrorOrEnd ==
  [][(last'.op = "tick" /\ last'.outcome \in {"StreamError", "StreamEnded"}) =>
       /\ app.streaming_message # None
       /\ app'.chat_history =
            IF Len(trim(app.streaming_message[1])) > 0
            THEN Append(app.chat_history, <<"assistant", app.streaming_message[1]>>)
            ELSE app.chat_history
       /\ ~app'.is_loading
       /\ app'.stream = None
       /\ app'.streaming_message = None
       /\ (app'.error_message # None) <=> (last'.outcome = "StreamError")
       /\ halted' = "no"]_vars

\* the stream failed after "Hi" had arrived: "Hi" is committed, the error
\* flag is set
C17_Witness ==
  /\ last.op = "tick"
  /\ last.outcome = "StreamError"
  /\ app.error_message # None
  /\ app.chat_history[Len(app.chat_history)] = <<"assistant", TxtHi>>
  /\ ~app.is_loading

\* a fragment with the line w put in after its first i lines
InsertLine(chunk, i, w) == SubSeq(chunk, 1, i) \o <<w>> \o SubSeq(chunk, i + 1, Len(chunk))

\* the places of a fragment where a line ends
LineEnds(chunk) == {0} \cup {i \in 1..Len(chunk) : chunk[i].k # "head"}

Advance(chunk) == process_streaming(app, [kind |-> "Chunk", chunk |-> chunk], now)

\* C18: a blank line and a line that is no JSON change nothing and do not
\* end the turn: alone in a fragment they leave the session as it is, and
\* put anywhere between the lines of a fragment they leave the result of the
\* advance as it is without them, so the content of the lines before and
\* after them is accumulated in order.
C18_BadLinesSkipped ==
  (app.is_loading /\ app.stream # None) =>
    \A w \in {WJunk, WBlank} :
      /\ Advance(<<w>>) = [self |-> app, outcome |-> "Progressed"]
      /\ \A chunk \in Chunks : \A i \in LineEnds(chunk) :
           Advance(InsertLine(chunk, i, w)) = Advance(chunk)

\* a fragment with a line that is no JSON and a blank line before a content
\* line was consumed: the content is buffered, the stream is still open
C18_Witness ==
  /\ last.op = "tick"
  /\ last.outcome = "Progressed"
  /\ wire.chunks = 1
  /\ wire.shape = "other"
  /\ app.is_loading
  /\ app.streaming_message = Some(TxtHi)

\* C19: right after a finalization the tail of the display history is a
\* PendingToolCall exactly when the finalization committed a text that holds
\* an invocation of the grammar; otherwise the finalization appended no
\* PendingToolCall and the session is Idle.
C19_PendingIffInvocation ==
  [][(last'.op = "tick" /\ last'.outcome \in FinalOutcomes) =>
       /\ AwaitingApproval' <=>
            (Commits /\ \E text \in {Committed} : Invocations(text) # {})
       /\ ~AwaitingApproval' =>
            /\ Idle'
            /\ \A i \in (Len(app.messages) + 1)..Len(app'.messages) :
                 app'.messages[i].type # "PendingToolCall"]_vars

\* a reply with a directive the grammar does not accept (the tool name is
\* capitalised) was committed: the session is Idle
C19_Witness ==
  /\ last.op = "tick"
  /\ last.outcome \in FinalOutcomes
  /\ Idle
  /\ Back(app).type = "Assistant"
  /\ Back(app).content = PcProse \o PcUpper

\* C20: after an approve the display history holds a ToolCallResult entry
\* that carries the result text sent to the backend.
C20_ResultInHistory ==
  [][(last'.op = "key" /\ last'.code = "Right" /\ AwaitingApproval) =>
       \E i \in 1..Len(app'.messages) :
         app'.messages[i] =
           ToolCallResult(app'.chat_history[Len(app'.chat_history)][2],
                          app'.messages[i].timestamp)]_vars

\* is a a prefix of b?
IsPrefix(a, b) == Len(a) <= Len(b) /\ SubSeq(b, 1, Len(a)) = a

\* the positions of the system entries of a transcript
SystemEntries(h) == {i \in 1..Len(h) : h[i][1] = "system"}

\* C21: the first entry of the transcript is the system entry and no other
\* entry is a system entry; every operation leaves the previous transcript
\* as a prefix; a deny adds no entry to it, and a step of the stream adds
\* at most one assistant entry, the text that begins with the in-progress
\* buffer, whether or not it appended a PendingToolCall; no new entry
\* carries the text of a pending or denied call.
C21_TranscriptAppendOnly ==
  /\ [](SystemEntries(app.chat_history) = {1})
  /\ [][/\ IsPrefix(app.chat_history, app'.chat_history)
        /\ (last'.op = "key" /\ last'.code = "Left") =>
             app'.chat_history = app.chat_history
        /\ last'.op = "tick" =>
             \/ app'.chat_history = app.chat_history
             \/ /\ Len(app'.chat_history) = Len(app.chat_history) + 1
                /\ app'.chat_history[Len(app'.chat_history)][1] = "assistant"
                /\ IsPrefix(app.streaming_message[1],
                            app'.chat_history[Len(app'.chat_history)][2])
        /\ \A i \in 1..Len(app'.messages) :
             app'.messages[i].type \in {"PendingToolCall", "ToolCallDenied"} =>
               \A j \in (Len(app.chat_history) + 1)..Len(app'.chat_history) :
                 app'.chat_history[j][2] # app'.messages[i].original_message]_vars

\* a call was detected and then denied; the transcript holds the system
\* entry, the user's text and the reply
C21_Witness ==
  /\ last.op = "key"
  /\ last.code = "Left"
  /\ Len(app.messages) > 0
  /\ Back(app).type = "ToolCallDenied"
  /\ app.chat_history =
       << <<"system", SystemPrompt>>, <<"user", <<"a">> >>, <<"assistant", TxtCall>> >>

\* C22: under a loop that keeps polling and a backend whose every stream
\* ends, errs or delivers a line whose done field is true, every Streaming
\* state is followed by a state whose loading flag is false (or by the
\* user's quit), and no failure ends run_app.
C22_LoadingEnds ==
  /\ Streaming ~> (~Streaming \/ halted = "quit")
  /\ [](halted # "panic")

\* the text a key event submits: the input buffer for Enter, the result of
\* the pending tool call for Right
SubmittedTexts ==
  IF last'.code = "Enter" THEN {app.input}
  ELSE {execute_tool_call(Back(app).tool_call, fs) : fs \in FsOutcomes}

\* C23: the transcript of every request sent to the backend starts with the
\* system entry, and its last entry is the user entry with the text just
\* submitted (the typed input, or the tool's result).
C23_RequestEndsWithSubmitted ==
  [][requests' # requests =>
       \A req \in {requests'[Len(requests')]} :
         /\ Len(requests') = Len(requests) + 1
         /\ req.messages[1] = <<"system", SystemPrompt>>
         /\ req.messages[Len(req.messages)][1] = "user"
         /\ req.messages[Len(req.messages)][2] \in SubmittedTexts]_vars

\* the session after the stream has delivered the fragments cs, in order
RECURSIVE Feed(_, _, _)
Feed(self, cs, ts) ==
  IF Len(cs) = 0 THEN self
  ELSE Feed(process_streaming(self, [kind |-> "Chunk", chunk |-> Head(cs)], ts).self,
            Tail(cs), ts)

\* the transcript after the stream has delivered the fragments cs and ended
CommittedAfter(self, cs) ==
  process_streaming(Feed(self, cs, now), [kind |-> "End", chunk |-> <<>>], now)
    .self.chat_history

\* C24: while a stream is open, a JSON line delivered whole in one fragment
\* and the same line cut in two fragments (the same bytes) lead to the same
\* committed transcript.
C24_SplitCommitsSame ==
  (halted = "no" /\ app.stream # None) =>
    \A e \in JsonTable :
      /\ Fragment(<<WJson(e.value)>>) =
           Fragment(<<WHead(e.value)>>) \o Fragment(<<WTail(e.value)>>)
      /\ CommittedAfter(app, << <<WJson(e.value)>> >>) =
           CommittedAfter(app, << <<WHead(e.value)>>, <<WTail(e.value)>> >>)

\* C25: in no state is the loading flag true while the tail of the display
\* history is a PendingToolCall; no step that runs or denies a tool call
\* starts from a state whose loading flag is true.
C25_StreamingExcludesApproval ==
  /\ [](~(Streaming /\ AwaitingApproval))
  /\ [][(tool_log' # tool_log \/ denied' # denied) => ~Streaming]_vars

\* a submit made while a call was pending: the session streams and the
\* PendingToolCall is in the display history, below the tail
C25_Witness ==
  /\ Streaming
  /\ app.stream # None
  /\ \E i \in 1..(Len(app.messages) - 1) : app.messages[i].type = "PendingToolCall"

\* C26: after every operation the loading flag is true exactly when a
\* stream is held, and exactly when an in-progress buffer exists.
C26_IndicatorsAgree ==
  /\ app.is_loading <=> app.stream # None
  /\ app.is_loading <=> app.streaming_message # None

\* the backend refused the request of an approve: the three indicators,
\* set before the request, are all cleared
C26_Witness ==
  /\ last.op = "key"
  /\ last.code = "Right"
  /\ Len(tool_log) > 0
  /\ ~requests[Len(requests)].accepted
  /\ ~app.is_loading
  /\ app.stream = None
  /\ app.streaming_message = None

\* C27: the model list is never empty and selected_model_index is an index
\* into it.
C27_ModelSelected ==
  /\ Len(app.models) > 0
  /\ app.selected_model_index \in 0..(Len(app.models) - 1)

\* C28: input_cursor_position lies between 0 and the byte length of the
\* input buffer, on a character boundary, and no editing key panics.
C28_CursorOnBoundary ==
  /\ app.input_cursor_position \in 0..Len(app.input)
  /\ is_char_boundary(app.input, app.input_cursor_position)
  /\ ~(halted = "panic" /\ last.code = "Other")

====
